---------------------------- MODULE Spec2Model ----------------------------
(***************************************************************************)
(* A model of the glowenft on-ledger program: the instruction codec, the   *)
(* program-derived addresses, the two instruction builders and the two     *)
(* minting pipelines of Processor, run against a ledger with the system    *)
(* program's create_account and the token program's four instructions.    *)
(***************************************************************************)
EXTENDS Integers, Sequences, FiniteSets, TLC

VARIABLES ledger, last, completed, minted

vars == <<ledger, last, completed, minted>>

(***************************************************************************)
(* Bytes, strings and public keys.  A string is the sequence of its UTF-8  *)
(* bytes; a public key is a sequence of PUBKEY_BYTES bytes.                *)
(***************************************************************************)
PUBKEY_BYTES == 32

MAX_SEED_LEN == 32

Key(b) == [i \in 1..PUBKEY_BYTES |-> b]

NoKey == <<>>

\* b"glowenft", b"mint", b"owner" and the marker the runtime appends when it
\* hashes the seeds of a program-derived address.
GLOWENFT == <<103, 108, 111, 119, 101, 110, 102, 116>>
MINT_TAG == <<109, 105, 110, 116>>
OWNER_TAG == <<111, 119, 110, 101, 114>>
PDA_MARKER == <<80, 114, 111, 103, 114, 97, 109, 68, 101, 114, 105, 118, 101,
                100, 65, 100, 100, 114, 101, 115, 115>>


RECURSIVE Flatten(_)
\* The bytes of a seed list, one seed after the other (the hasher is fed the
\* seeds in order, with nothing between them).
Flatten(seqs) ==
    IF seqs = <<>> THEN <<>> ELSE Head(seqs) \o Flatten(Tail(seqs))

ByteAt(s, i) == IF i \in 1..Len(s) THEN s[i] ELSE 0

(***************************************************************************)
(* Message codec: the Borsh encoding of GloweInstruction.  An enum is its  *)
(* variant index in one byte followed by its fields; a String is its byte  *)
(* length as a little-endian u32 followed by its UTF-8 bytes.              *)
(***************************************************************************)
GloweInstruction(tag, name, url) == [tag |-> tag, name |-> name, url |-> url]

variant_index(tag) == IF tag = "Mint" THEN 0 ELSE 1

\* A length prefix that keeps only the low byte of the length.
u32_to_le_bytes_low_byte(n) == <<n % 256, 0, 0, 0>>

u32_to_le_bytes(n) ==
    <<n % 256, (n \div 256) % 256, (n \div 65536) % 256, (n \div 16777216) % 256>>

serialize_string(s) == u32_to_le_bytes(Len(s)) \o s

\* An encoder that writes the url before the name.
try_to_vec_url_first(ix) ==
    <<variant_index(ix.tag)>> \o serialize_string(ix.url) \o serialize_string(ix.name)

\* BorshSerialize::try_to_vec of a GloweInstruction.
try_to_vec(ix) ==
    <<variant_index(ix.tag)>> \o serialize_string(ix.name) \o serialize_string(ix.url)

\* The model's bytes are ASCII bytes and 0xFF; of these exactly the ASCII ones
\* form valid UTF-8, in any order.
from_utf8_ok(s) == \A i \in 1..Len(s) : s[i] < 128

\* A String read at position pos of buf: the four length bytes, then that
\* many bytes, which must be UTF-8.  A length of 2^31 or more cannot be met by
\* any buffer of the model, so the read fails as it does on a short buffer.
deserialize_string(buf, pos) ==
    IF pos + 3 > Len(buf) \/ buf[pos + 3] >= 128
    THEN [ok |-> FALSE, value |-> <<>>, next |-> pos]
    ELSE LET n == buf[pos] + 256 * buf[pos + 1] + 65536 * buf[pos + 2]
                  + 16777216 * buf[pos + 3]
         IN  IF pos + 3 + n > Len(buf)
             THEN [ok |-> FALSE, value |-> <<>>, next |-> pos]
             ELSE LET v == SubSeq(buf, pos + 4, pos + 3 + n)
                  IN  [ok |-> from_utf8_ok(v), value |-> v, next |-> pos + 4 + n]

DecodeError == [ok |-> FALSE, ix |-> GloweInstruction("Mint", <<>>, <<>>)]

\* A decoder that takes every variant index other than 0 for Mint2.
try_from_slice_any_tag(buf) ==
    IF Len(buf) < 1 THEN DecodeError
    ELSE LET n == deserialize_string(buf, 2)
         IN  IF ~n.ok THEN DecodeError
             ELSE LET u == deserialize_string(buf, n.next)
                  IN  IF ~u.ok \/ u.next # Len(buf) + 1 THEN DecodeError
                      ELSE [ok |-> TRUE,
                            ix |-> GloweInstruction(
                                     IF buf[1] = 0 THEN "Mint" ELSE "Mint2",
                                     n.value, u.value)]

\* BorshDeserialize::try_from_slice: the variant index, the two strings, and
\* no byte left over.
try_from_slice(buf) ==
    IF Len(buf) < 1 \/ buf[1] > 1 THEN DecodeError
    ELSE LET n == deserialize_string(buf, 2)
         IN  IF ~n.ok THEN DecodeError
             ELSE LET u == deserialize_string(buf, n.next)
                  IN  IF ~u.ok \/ u.next # Len(buf) + 1 THEN DecodeError
                      ELSE [ok |-> TRUE,
                            ix |-> GloweInstruction(
                                     IF buf[1] = 0 THEN "Mint" ELSE "Mint2",
                                     n.value, u.value)]

(***************************************************************************)
(* Address deriver.  The digest of the runtime's hash is modelled by its   *)
(* preimage, so two digests are equal exactly when the hashed bytes are;   *)
(* whether a digest is a point of the curve is a fixed function of it.     *)
(***************************************************************************)
\* It reads the digest's length, the byte after the first eight and the last
\* seed byte (the bump seed of a search), so that the bump seed found differs
\* from one seed list to another.
is_on_curve(digest) ==
    (Len(digest) + ByteAt(digest, 9)
     + ByteAt(digest, Len(digest) - Len(PDA_MARKER) - PUBKEY_BYTES)) % 2 = 0

\* Pubkey::create_program_address
create_program_address(seeds, program_id) ==
    IF Len(seeds) > 16 \/ \E i \in 1..Len(seeds) : Len(seeds[i]) > MAX_SEED_LEN
    THEN [err |-> "MaxSeedLengthExceeded", address |-> NoKey]
    ELSE LET digest == Flatten(seeds) \o program_id \o PDA_MARKER
         IN  IF is_on_curve(digest)
             THEN [err |-> "InvalidSeeds", address |-> NoKey]
             ELSE [err |-> "", address |-> digest]

RECURSIVE try_find_program_address(_, _, _)
\* The search of Pubkey::find_program_address, from bump seed 255 downwards;
\* ok is FALSE where find_program_address panics.
try_find_program_address(seeds, program_id, bump) ==
    LET r == create_program_address(Append(seeds, <<bump>>), program_id)
    IN  IF r.err = "" THEN [ok |-> TRUE, address |-> r.address, bump |-> bump]
        ELSE IF r.err = "InvalidSeeds" /\ bump > 0
             THEN try_find_program_address(seeds, program_id, bump - 1)
             ELSE [ok |-> FALSE, address |-> NoKey, bump |-> 0]

find_program_address(seeds, program_id) ==
    try_find_program_address(seeds, program_id, 255)

\* Seeds for the mint address that leave the payer out.
derive_mint_account_seeds_without_payer(program_id, token_program_id, payer, nft_name) ==
    <<GLOWENFT, nft_name, MINT_TAG, program_id, token_program_id>>

derive_mint_account_seeds(program_id, token_program_id, payer, nft_name) ==
    <<GLOWENFT, nft_name, MINT_TAG, program_id, token_program_id, payer>>

\* A derivation that looks at the ledger: it passes over an address that
\* already holds an account and goes on to the next bump seed.
derive_mint_account_internal_unused(program_id, token_program_id, payer, nft_name) ==
    LET seeds == derive_mint_account_seeds(program_id, token_program_id, payer, nft_name)
        r == find_program_address(seeds, program_id)
    IN  IF r.ok /\ r.bump > 0 /\ r.address \in DOMAIN ledger
        THEN try_find_program_address(seeds, program_id, r.bump - 1)
        ELSE r

derive_mint_account_internal(program_id, token_program_id, payer, nft_name) ==
    find_program_address(
        derive_mint_account_seeds(program_id, token_program_id, payer, nft_name),
        program_id)

derive_token_account_seeds(program_id, token_program_id, payer, nft_name, owner) ==
    <<GLOWENFT, nft_name, OWNER_TAG, program_id, token_program_id, payer, owner>>

derive_token_account_internal(program_id, token_program_id, payer, nft_name, owner) ==
    find_program_address(
        derive_token_account_seeds(program_id, token_program_id, payer, nft_name, owner),
        program_id)

(***************************************************************************)
(* Well-known identities and error values.  A GloweError reaches the       *)
(* caller as ProgramError::Custom(its discriminant); the system program's  *)
(* and the token program's own errors are Custom values as well.           *)
(***************************************************************************)
spl_token_id == Key(6)
system_program_id == Key(0)
rent_sysvar_id == Key(7)
placeholder_program_id == Key(42)

Custom(n) == <<"Custom", n>>
Err(name) == <<name, 0>>
Ok == Err("Ok")

InvalidInstruction == Custom(0)
NotRentExempt == Custom(1)
AccountMismatch == Custom(2)
MissingRequiredSignature == Err("MissingRequiredSignature")
NotEnoughAccountKeys == Err("NotEnoughAccountKeys")
IllegalOwner == Err("IllegalOwner")
InvalidArgument == Err("InvalidArgument")
InvalidAccountData == Err("InvalidAccountData")
\* find_program_address panicked: the runtime reports the program as failed.
ProgramFailedToComplete == Err("ProgramFailedToComplete")
\* The runtime's refusals of a cross-program call.
PrivilegeEscalation == Err("PrivilegeEscalation")
MissingAccount == Err("MissingAccount")
ExternalAccountDataModified == Err("ExternalAccountDataModified")
\* SystemError
SystemAccountAlreadyInUse == Custom(0)
SystemResultWithNegativeLamports == Custom(1)
\* TokenError
TokenNotRentExempt == Custom(0)
TokenInvalidMint == Custom(2)
TokenMintMismatch == Custom(3)
TokenOwnerMismatch == Custom(4)
TokenFixedSupply == Custom(5)
TokenAlreadyInUse == Custom(6)

(***************************************************************************)
(* Ledger accounts.  An address that holds no account reads as an account  *)
(* of the system program with no lamports and no data.  The data of a      *)
(* token-program account is kept unpacked.                                 *)
(***************************************************************************)
Mint_LEN == 82
Account_LEN == 165

NoData ==
    [state |-> "uninitialized", mint_authority |-> NoKey, supply |-> 0,
     decimals |-> 0, mint |-> NoKey, owner |-> NoKey, amount |-> 0]

MintData(authority, supply, decimals) ==
    [NoData EXCEPT !.state = "mint", !.mint_authority = authority,
                   !.supply = supply, !.decimals = decimals]

TokenAccountData(mint, owner, amount) ==
    [NoData EXCEPT !.state = "account", !.mint = mint, !.owner = owner,
                   !.amount = amount]

AccountOf(lamports, owner, space, data) ==
    [lamports |-> lamports, owner |-> owner, space |-> space, data |-> data]

NoAccount == AccountOf(0, system_program_id, 0, NoData)

\* The ledger maps the addresses that hold an account to the account.
Get(l, k) == IF k \in DOMAIN l THEN l[k] ELSE NoAccount
Put(l, k, v) == [x \in DOMAIN l \cup {k} |-> IF x = k THEN v ELSE l[x]]

\* Rent::minimum_balance under Rent::default(): two years of rent at 3480
\* lamports per byte-year, for the data and 128 bytes of account overhead.
minimum_balance(data_len) == (128 + data_len) * 3480 * 2

(***************************************************************************)
(* Instructions and account references.                                    *)
(***************************************************************************)
AccountMeta(pubkey, is_signer, is_writable) ==
    [pubkey |-> pubkey, is_signer |-> is_signer, is_writable |-> is_writable]

AccountMeta_new(pubkey, is_signer) == AccountMeta(pubkey, is_signer, TRUE)
AccountMeta_new_readonly(pubkey, is_signer) == AccountMeta(pubkey, is_signer, FALSE)

Instruction(program_id, name, accounts, args) ==
    [program_id |-> program_id, name |-> name, accounts |-> accounts, args |-> args]

NoArgs == [lamports |-> 0, space |-> 0, owner |-> NoKey, authority |-> NoKey,
           decimals |-> 0, amount |-> 0]

\* The keys an instruction names with a privilege; a key named twice has the
\* privileges of both references.
SignerKeys(metas) == {metas[i].pubkey : i \in {j \in 1..Len(metas) : metas[j].is_signer}}
WritableKeys(metas) == {metas[i].pubkey : i \in {j \in 1..Len(metas) : metas[j].is_writable}}
MetaKeys(metas) == {metas[i].pubkey : i \in 1..Len(metas)}

(***************************************************************************)
(* The instructions the pipelines build for the system program and the     *)
(* token program.  The token program's builders name the rent sysvar       *)
(* themselves, and with a non-empty signer list name the authority without *)
(* the signer flag, followed by each signer.                               *)
(***************************************************************************)
system_instruction_create_account(from, to, lamports, space, owner) ==
    Instruction(system_program_id, "create_account",
                <<AccountMeta_new(from, TRUE), AccountMeta_new(to, TRUE)>>,
                [NoArgs EXCEPT !.lamports = lamports, !.space = space, !.owner = owner])

spl_initialize_mint(token_program_id, mint, mint_authority, decimals) ==
    Instruction(token_program_id, "initialize_mint",
                <<AccountMeta_new(mint, FALSE),
                  AccountMeta_new_readonly(rent_sysvar_id, FALSE)>>,
                [NoArgs EXCEPT !.authority = mint_authority, !.decimals = decimals])

spl_initialize_account(token_program_id, account, mint, owner) ==
    Instruction(token_program_id, "initialize_account",
                <<AccountMeta_new(account, FALSE),
                  AccountMeta_new_readonly(mint, FALSE),
                  AccountMeta_new_readonly(owner, FALSE),
                  AccountMeta_new_readonly(rent_sysvar_id, FALSE)>>,
                NoArgs)

SignerMetas(signer_pubkeys) ==
    [i \in 1..Len(signer_pubkeys) |-> AccountMeta_new_readonly(signer_pubkeys[i], TRUE)]

spl_mint_to(token_program_id, mint, account, owner, signer_pubkeys, amount) ==
    Instruction(token_program_id, "mint_to",
                <<AccountMeta_new(mint, FALSE),
                  AccountMeta_new(account, FALSE),
                  AccountMeta_new_readonly(owner, signer_pubkeys = <<>>)>>
                \o SignerMetas(signer_pubkeys),
                [NoArgs EXCEPT !.amount = amount])

\* set_authority(.., None, AuthorityType::MintTokens, ..)
spl_set_authority(token_program_id, owned, owner, signer_pubkeys) ==
    Instruction(token_program_id, "set_authority",
                <<AccountMeta_new(owned, FALSE),
                  AccountMeta_new_readonly(owner, signer_pubkeys = <<>>)>>
                \o SignerMetas(signer_pubkeys),
                NoArgs)

(***************************************************************************)
(* The system program's create_account and the token program's four        *)
(* instructions, as functions of the ledger l, the instruction and the     *)
(* keys that sign it.  Each returns the error and the ledger it leaves.    *)
(***************************************************************************)
Done(l) == [err |-> Ok, ledger |-> l]
Failed(e, l) == [err |-> e, ledger |-> l]

system_create_account(l, ix, signers) ==
    LET from == ix.accounts[1].pubkey
        to == ix.accounts[2].pubkey
        a == ix.args
    IN  IF Get(l, to).lamports > 0 THEN Failed(SystemAccountAlreadyInUse, l)
        ELSE IF to \notin signers THEN Failed(MissingRequiredSignature, l)
        ELSE IF Get(l, to).space > 0 \/ Get(l, to).owner # system_program_id
             THEN Failed(SystemAccountAlreadyInUse, l)
        ELSE IF from \notin signers THEN Failed(MissingRequiredSignature, l)
        ELSE IF Get(l, from).space > 0 THEN Failed(InvalidArgument, l)
        ELSE IF a.lamports > Get(l, from).lamports
             THEN Failed(SystemResultWithNegativeLamports, l)
        ELSE Done(Put(Put(l, from, [Get(l, from) EXCEPT !.lamports = @ - a.lamports]),
                      to, AccountOf(a.lamports, a.owner, a.space, NoData)))

\* Mint::unpack and Account::unpack: the length and the initialized flag.
IsMint(acct) == acct.space = Mint_LEN /\ acct.data.state = "mint"
IsTokenAccount(acct) == acct.space = Account_LEN /\ acct.data.state = "account"

\* The runtime lets a program change only the data of accounts it owns.
TokenWrite(l, keys, l2) ==
    IF \E k \in keys : Get(l, k).owner # spl_token_id
    THEN Failed(ExternalAccountDataModified, l)
    ELSE Done(l2)

token_initialize_mint(l, ix, signers) ==
    LET mint == ix.accounts[1].pubkey
    IN  IF Get(l, mint).space # Mint_LEN THEN Failed(InvalidAccountData, l)
        ELSE IF Get(l, mint).data.state # "uninitialized" THEN Failed(TokenAlreadyInUse, l)
        ELSE IF Get(l, mint).lamports < minimum_balance(Get(l, mint).space)
             THEN Failed(TokenNotRentExempt, l)
        ELSE TokenWrite(l, {mint},
                 [l EXCEPT ![mint].data = MintData(ix.args.authority, 0, ix.args.decimals)])

token_initialize_account(l, ix, signers) ==
    LET account == ix.accounts[1].pubkey
        mint == ix.accounts[2].pubkey
        owner == ix.accounts[3].pubkey
    IN  IF Get(l, account).space # Account_LEN THEN Failed(InvalidAccountData, l)
        ELSE IF Get(l, account).data.state # "uninitialized" THEN Failed(TokenAlreadyInUse, l)
        ELSE IF Get(l, account).lamports < minimum_balance(Get(l, account).space)
             THEN Failed(TokenNotRentExempt, l)
        ELSE IF ~IsMint(Get(l, mint)) THEN Failed(TokenInvalidMint, l)
        ELSE TokenWrite(l, {account},
                 [l EXCEPT ![account].data = TokenAccountData(mint, owner, 0)])

\* Processor::validate_owner for an authority that is no multisig account.
validate_owner(expected_owner, owner_key, signers) ==
    IF expected_owner # owner_key THEN TokenOwnerMismatch
    ELSE IF owner_key \notin signers THEN MissingRequiredSignature
    ELSE Ok

token_mint_to(l, ix, signers) ==
    LET mint == ix.accounts[1].pubkey
        dest == ix.accounts[2].pubkey
        owner == ix.accounts[3].pubkey
    IN  IF ~IsTokenAccount(Get(l, dest)) THEN Failed(InvalidAccountData, l)
        ELSE IF mint # Get(l, dest).data.mint THEN Failed(TokenMintMismatch, l)
        ELSE IF ~IsMint(Get(l, mint)) THEN Failed(InvalidAccountData, l)
        ELSE IF Get(l, mint).data.mint_authority = NoKey THEN Failed(TokenFixedSupply, l)
        ELSE IF validate_owner(Get(l, mint).data.mint_authority, owner, signers) # Ok
             THEN Failed(validate_owner(Get(l, mint).data.mint_authority, owner, signers), l)
        ELSE TokenWrite(l, {mint, dest},
                 [l EXCEPT ![dest].data.amount = @ + ix.args.amount,
                           ![mint].data.supply = @ + ix.args.amount])

token_set_authority(l, ix, signers) ==
    LET account == ix.accounts[1].pubkey
        owner == ix.accounts[2].pubkey
    IN  IF ~IsMint(Get(l, account)) THEN Failed(InvalidArgument, l)
        ELSE IF Get(l, account).data.mint_authority = NoKey THEN Failed(TokenFixedSupply, l)
        ELSE IF validate_owner(Get(l, account).data.mint_authority, owner, signers) # Ok
             THEN Failed(validate_owner(Get(l, account).data.mint_authority, owner, signers), l)
        ELSE TokenWrite(l, {account}, [l EXCEPT ![account].data.mint_authority = NoKey])

\* The program an instruction is addressed to runs it.
Dispatch(l, ix, signers) ==
    IF ix.name = "create_account" THEN system_create_account(l, ix, signers)
    ELSE IF ix.name = "initialize_mint" THEN token_initialize_mint(l, ix, signers)
    ELSE IF ix.name = "initialize_account" THEN token_initialize_account(l, ix, signers)
    ELSE IF ix.name = "mint_to" THEN token_mint_to(l, ix, signers)
    ELSE token_set_authority(l, ix, signers)

(***************************************************************************)
(* The runtime's side of an invocation.  The context c of a running        *)
(* instruction holds the working ledger, the cross-program calls issued so *)
(* far with their results, and the program's id and the privileges its     *)
(* transaction gave to each key.                                           *)
(***************************************************************************)
AccountInfo(key, is_signer, is_writable, owner) ==
    [key |-> key, is_signer |-> is_signer, is_writable |-> is_writable, owner |-> owner]

\* The AccountInfo list the runtime hands to the program for the account
\* references of an instruction.
AccountInfos(metas, l) ==
    [i \in 1..Len(metas) |->
        AccountInfo(metas[i].pubkey,
                    metas[i].pubkey \in SignerKeys(metas),
                    metas[i].pubkey \in WritableKeys(metas),
                    Get(l, metas[i].pubkey).owner)]

InvokeContext(program_id, metas, l) ==
    [ledger |-> l, calls |-> <<>>, err |-> Ok, program_id |-> program_id,
     signers |-> SignerKeys(metas), writables |-> WritableKeys(metas)]

Abort(c, e) == [c EXCEPT !.err = e]

InfoKeys(account_infos) == {account_infos[i].key : i \in 1..Len(account_infos)}

\* solana_program::program::invoke_signed: every account the instruction
\* names must be among account_infos, every privilege it asks for must be the
\* caller's own or that of an address derived from signers_seeds under the
\* caller's id; then the callee runs on the working ledger.
invoke_signed(c, ix, account_infos, signers_seeds) ==
    LET pdas == {create_program_address(signers_seeds[i], c.program_id) :
                    i \in 1..Len(signers_seeds)}
        r == IF \E p \in pdas : p.err # ""
             THEN Failed(Err("InvalidSeeds"), c.ledger)
             ELSE IF ~(MetaKeys(ix.accounts) \subseteq InfoKeys(account_infos))
             THEN Failed(MissingAccount, c.ledger)
             ELSE IF ~(SignerKeys(ix.accounts) \subseteq
                          (c.signers \cup {p.address : p \in pdas}))
                     \/ ~(WritableKeys(ix.accounts) \subseteq c.writables)
             THEN Failed(PrivilegeEscalation, c.ledger)
             ELSE Dispatch(c.ledger, ix, SignerKeys(ix.accounts))
    IN  [c EXCEPT !.ledger = r.ledger,
                  !.calls = Append(@, [ix |-> ix, err |-> r.err]),
                  !.err = r.err]

spl_token_check_id(key) == key = spl_token_id
system_program_check_id(key) == key = system_program_id

\* Rent::from_account_info
Rent_from_account_info_ok(rent_account) == rent_account.key = rent_sysvar_id

(***************************************************************************)
(* Processor::process_mint.  The checks come first, each a function of the *)
(* accounts read so far; the six cross-program calls follow, each issued   *)
(* only when the one before it returned Ok.                                *)
(***************************************************************************)
\* The signer check left out.
mint_minter_unchecked(minter) == TRUE

mint_minter_signed(minter) == minter.is_signer

mint_token_program_ok(token_program) == spl_token_check_id(token_program.key)

\* The system-program check left out.
mint_system_program_unchecked(system_program) == TRUE

mint_system_program_ok(system_program) == system_program_check_id(system_program.key)

\* The comparison of the supplied mint address left out.
mint_pda_unchecked(mint_pda, mint_account_info) == TRUE

mint_pda_matches(mint_pda, mint_account_info) == mint_pda = mint_account_info.key

token_pda_matches(token_account_pda, token_account_info) ==
    token_account_pda = token_account_info.key

\* A cross-program call as the program issues it: the instruction, the
\* account_infos passed along and the signer seeds.
Call(ix, account_infos, signers_seeds) ==
    [ix |-> ix, account_infos |-> account_infos, signers_seeds |-> signers_seeds]

\* A handler without the `?`: it issues every call whatever the one before
\* returned, and ends with the result of the last.
RECURSIVE run_calls_past_errors(_, _)
run_calls_past_errors(c, calls) ==
    IF calls = <<>> THEN c
    ELSE run_calls_past_errors(
             invoke_signed(c, Head(calls).ix, Head(calls).account_infos,
                           Head(calls).signers_seeds),
             Tail(calls))

\* The `?` after each invoke: the first call that fails ends the handler
\* with its error, and the calls after it are not issued.
RECURSIVE run_calls(_, _)
run_calls(c, calls) ==
    IF calls = <<>> THEN c
    ELSE LET c1 == invoke_signed(c, Head(calls).ix, Head(calls).account_infos,
                                 Head(calls).signers_seeds)
         IN  IF c1.err # Ok THEN c1 ELSE run_calls(c1, Tail(calls))

\* A variant of process_mint that seeds the mint address with the owner in
\* place of the payer.
process_mint_calls_owner_seeded(c, accounts, name, mint, tok) ==
    LET minter == accounts[1]
        owner == accounts[2]
        mint_account_info == accounts[3]
        token_account_info == accounts[4]
        token_program == accounts[5]
        system_program == accounts[6]
        rent_account == accounts[7]
        mint_pda == mint.address
        token_account_pda == tok.address
        mint_seeds ==
            derive_mint_account_seeds(c.program_id, token_program.key, owner.key, name)
            \o <<(<<mint.bump>>)>>
        token_account_seeds ==
            derive_token_account_seeds(c.program_id, token_program.key, minter.key,
                                       name, owner.key)
            \o <<(<<tok.bump>>)>>
    IN  run_calls(c,
          << Call(system_instruction_create_account(
                      minter.key, mint_pda, minimum_balance(Mint_LEN), Mint_LEN,
                      token_program.key),
                  <<minter, mint_account_info, token_program, system_program>>,
                  <<mint_seeds>>),
             Call(system_instruction_create_account(
                      minter.key, token_account_pda, minimum_balance(Account_LEN),
                      Account_LEN, token_program.key),
                  <<minter, token_account_info, token_program, system_program>>,
                  <<token_account_seeds>>),
             Call(spl_initialize_mint(token_program.key, mint_pda, mint_pda, 0),
                  <<mint_account_info, rent_account, token_program>>,
                  <<>>),
             Call(spl_initialize_account(token_program.key, token_account_pda, mint_pda,
                                         owner.key),
                  <<token_account_info, mint_account_info, owner, rent_account,
                    token_program>>,
                  <<>>),
             Call(spl_mint_to(token_program.key, mint_pda, token_account_pda, mint_pda,
                              <<mint_pda>>, 1),
                  <<mint_account_info, token_account_info, mint_account_info,
                    token_program>>,
                  <<mint_seeds>>),
             Call(spl_set_authority(token_program.key, mint_pda, mint_pda, <<mint_pda>>),
                  <<mint_account_info, mint_account_info, token_program>>,
                  <<mint_seeds>>) >>)

process_mint_owner_seeded(c, accounts, name, url) ==
    IF Len(accounts) < 1 THEN Abort(c, NotEnoughAccountKeys)
    ELSE IF ~mint_minter_signed(accounts[1]) THEN Abort(c, MissingRequiredSignature)
    ELSE IF Len(accounts) < 5 THEN Abort(c, NotEnoughAccountKeys)
    ELSE IF ~mint_token_program_ok(accounts[5]) THEN Abort(c, AccountMismatch)
    ELSE IF Len(accounts) < 6 THEN Abort(c, NotEnoughAccountKeys)
    ELSE IF ~mint_system_program_ok(accounts[6]) THEN Abort(c, AccountMismatch)
    ELSE
    LET mint == derive_mint_account_internal(c.program_id, accounts[5].key,
                                             accounts[2].key, name)
    IN  IF ~mint.ok THEN Abort(c, ProgramFailedToComplete)
        ELSE IF ~mint_pda_matches(mint.address, accounts[3]) THEN Abort(c, AccountMismatch)
        ELSE
        LET tok == derive_token_account_internal(c.program_id, accounts[5].key,
                                                 accounts[1].key, name, accounts[2].key)
        IN  IF ~tok.ok THEN Abort(c, ProgramFailedToComplete)
            ELSE IF ~token_pda_matches(tok.address, accounts[4])
                 THEN Abort(c, AccountMismatch)
            ELSE IF Len(accounts) < 7 THEN Abort(c, NotEnoughAccountKeys)
            ELSE IF ~Rent_from_account_info_ok(accounts[7]) THEN Abort(c, InvalidArgument)
            ELSE process_mint_calls_owner_seeded(c, accounts, name, mint, tok)

\* A variant of the six calls that initializes the token account before
\* the mint.
process_mint_calls_account_first(c, accounts, name, mint, tok) ==
    LET minter == accounts[1]
        owner == accounts[2]
        mint_account_info == accounts[3]
        token_account_info == accounts[4]
        token_program == accounts[5]
        system_program == accounts[6]
        rent_account == accounts[7]
        mint_pda == mint.address
        token_account_pda == tok.address
        mint_seeds ==
            derive_mint_account_seeds(c.program_id, token_program.key, minter.key, name)
            \o <<(<<mint.bump>>)>>
        token_account_seeds ==
            derive_token_account_seeds(c.program_id, token_program.key, minter.key,
                                       name, owner.key)
            \o <<(<<tok.bump>>)>>
    IN  run_calls(c,
          << Call(system_instruction_create_account(
                      minter.key, mint_pda, minimum_balance(Mint_LEN), Mint_LEN,
                      token_program.key),
                  <<minter, mint_account_info, token_program, system_program>>,
                  <<mint_seeds>>),
             Call(system_instruction_create_account(
                      minter.key, token_account_pda, minimum_balance(Account_LEN),
                      Account_LEN, token_program.key),
                  <<minter, token_account_info, token_program, system_program>>,
                  <<token_account_seeds>>),
             Call(spl_initialize_account(token_program.key, token_account_pda, mint_pda,
                                         owner.key),
                  <<token_account_info, mint_account_info, owner, rent_account,
                    token_program>>,
                  <<>>),
             Call(spl_initialize_mint(token_program.key, mint_pda, mint_pda, 0),
                  <<mint_account_info, rent_account, token_program>>,
                  <<>>),
             Call(spl_mint_to(token_program.key, mint_pda, token_account_pda, mint_pda,
                              <<mint_pda>>, 1),
                  <<mint_account_info, token_account_info, mint_account_info,
                    token_program>>,
                  <<mint_seeds>>),
             Call(spl_set_authority(token_program.key, mint_pda, mint_pda, <<mint_pda>>),
                  <<mint_account_info, mint_account_info, token_program>>,
                  <<mint_seeds>>) >>)

\* A variant of the six calls that funds the token account with one lamport
\* more than the rent-exempt minimum.
process_mint_calls_overfunded(c, accounts, name, mint, tok) ==
    LET minter == accounts[1]
        owner == accounts[2]
        mint_account_info == accounts[3]
        token_account_info == accounts[4]
        token_program == accounts[5]
        system_program == accounts[6]
        rent_account == accounts[7]
        mint_pda == mint.address
        token_account_pda == tok.address
        mint_seeds ==
            derive_mint_account_seeds(c.program_id, token_program.key, minter.key, name)
            \o <<(<<mint.bump>>)>>
        token_account_seeds ==
            derive_token_account_seeds(c.program_id, token_program.key, minter.key,
                                       name, owner.key)
            \o <<(<<tok.bump>>)>>
    IN  run_calls(c,
          << Call(system_instruction_create_account(
                      minter.key, mint_pda, minimum_balance(Mint_LEN), Mint_LEN,
                      token_program.key),
                  <<minter, mint_account_info, token_program, system_program>>,
                  <<mint_seeds>>),
             Call(system_instruction_create_account(
                      minter.key, token_account_pda, minimum_balance(Account_LEN) + 1,
                      Account_LEN, token_program.key),
                  <<minter, token_account_info, token_program, system_program>>,
                  <<token_account_seeds>>),
             Call(spl_initialize_mint(token_program.key, mint_pda, mint_pda, 0),
                  <<mint_account_info, rent_account, token_program>>,
                  <<>>),
             Call(spl_initialize_account(token_program.key, token_account_pda, mint_pda,
                                         owner.key),
                  <<token_account_info, mint_account_info, owner, rent_account,
                    token_program>>,
                  <<>>),
             Call(spl_mint_to(token_program.key, mint_pda, token_account_pda, mint_pda,
                              <<mint_pda>>, 1),
                  <<mint_account_info, token_account_info, mint_account_info,
                    token_program>>,
                  <<mint_seeds>>),
             Call(spl_set_authority(token_program.key, mint_pda, mint_pda, <<mint_pda>>),
                  <<mint_account_info, mint_account_info, token_program>>,
                  <<mint_seeds>>) >>)

\* The six calls, from the accounts and the two derived addresses.
process_mint_calls(c, accounts, name, mint, tok) ==
    LET minter == accounts[1]
        owner == accounts[2]
        mint_account_info == accounts[3]
        token_account_info == accounts[4]
        token_program == accounts[5]
        system_program == accounts[6]
        rent_account == accounts[7]
        mint_pda == mint.address
        token_account_pda == tok.address
        mint_seeds ==
            derive_mint_account_seeds(c.program_id, token_program.key, minter.key, name)
            \o <<(<<mint.bump>>)>>
        token_account_seeds ==
            derive_token_account_seeds(c.program_id, token_program.key, minter.key,
                                       name, owner.key)
            \o <<(<<tok.bump>>)>>
    IN  run_calls(c,
          << Call(system_instruction_create_account(
                      minter.key, mint_pda, minimum_balance(Mint_LEN), Mint_LEN,
                      token_program.key),
                  <<minter, mint_account_info, token_program, system_program>>,
                  <<mint_seeds>>),
             Call(system_instruction_create_account(
                      minter.key, token_account_pda, minimum_balance(Account_LEN),
                      Account_LEN, token_program.key),
                  <<minter, token_account_info, token_program, system_program>>,
                  <<token_account_seeds>>),
             Call(spl_initialize_mint(token_program.key, mint_pda, mint_pda, 0),
                  <<mint_account_info, rent_account, token_program>>,
                  <<>>),
             Call(spl_initialize_account(token_program.key, token_account_pda, mint_pda,
                                         owner.key),
                  <<token_account_info, mint_account_info, owner, rent_account,
                    token_program>>,
                  <<>>),
             Call(spl_mint_to(token_program.key, mint_pda, token_account_pda, mint_pda,
                              <<mint_pda>>, 1),
                  <<mint_account_info, token_account_info, mint_account_info,
                    token_program>>,
                  <<mint_seeds>>),
             Call(spl_set_authority(token_program.key, mint_pda, mint_pda, <<mint_pda>>),
                  <<mint_account_info, mint_account_info, token_program>>,
                  <<mint_seeds>>) >>)

\* A variant that looks at the token program before the minter's signature.
process_mint_program_first(c, accounts, name, url) ==
    IF Len(accounts) < 5 THEN Abort(c, NotEnoughAccountKeys)
    ELSE IF ~mint_token_program_ok(accounts[5]) THEN Abort(c, AccountMismatch)
    ELSE IF ~mint_minter_signed(accounts[1]) THEN Abort(c, MissingRequiredSignature)
    ELSE IF Len(accounts) < 6 THEN Abort(c, NotEnoughAccountKeys)
    ELSE IF ~mint_system_program_ok(accounts[6]) THEN Abort(c, AccountMismatch)
    ELSE
    LET mint == derive_mint_account_internal(c.program_id, accounts[5].key,
                                             accounts[1].key, name)
    IN  IF ~mint.ok THEN Abort(c, ProgramFailedToComplete)
        ELSE IF ~mint_pda_matches(mint.address, accounts[3]) THEN Abort(c, AccountMismatch)
        ELSE
        LET tok == derive_token_account_internal(c.program_id, accounts[5].key,
                                                 accounts[1].key, name, accounts[2].key)
        IN  IF ~tok.ok THEN Abort(c, ProgramFailedToComplete)
            ELSE IF ~token_pda_matches(tok.address, accounts[4])
                 THEN Abort(c, AccountMismatch)
            ELSE IF Len(accounts) < 7 THEN Abort(c, NotEnoughAccountKeys)
            ELSE IF ~Rent_from_account_info_ok(accounts[7]) THEN Abort(c, InvalidArgument)
            ELSE process_mint_calls(c, accounts, name, mint, tok)

process_mint(c, accounts, name, url) ==
    IF Len(accounts) < 1 THEN Abort(c, NotEnoughAccountKeys)
    ELSE IF ~mint_minter_signed(accounts[1]) THEN Abort(c, MissingRequiredSignature)
    ELSE IF Len(accounts) < 5 THEN Abort(c, NotEnoughAccountKeys)
    ELSE IF ~mint_token_program_ok(accounts[5]) THEN Abort(c, AccountMismatch)
    ELSE IF Len(accounts) < 6 THEN Abort(c, NotEnoughAccountKeys)
    ELSE IF ~mint_system_program_ok(accounts[6]) THEN Abort(c, AccountMismatch)
    ELSE
    LET mint == derive_mint_account_internal(c.program_id, accounts[5].key,
                                             accounts[1].key, name)
    IN  IF ~mint.ok THEN Abort(c, ProgramFailedToComplete)
        ELSE IF ~mint_pda_matches(mint.address, accounts[3]) THEN Abort(c, AccountMismatch)
        ELSE
        LET tok == derive_token_account_internal(c.program_id, accounts[5].key,
                                                 accounts[1].key, name, accounts[2].key)
        IN  IF ~tok.ok THEN Abort(c, ProgramFailedToComplete)
            ELSE IF ~token_pda_matches(tok.address, accounts[4])
                 THEN Abort(c, AccountMismatch)
            ELSE IF Len(accounts) < 7 THEN Abort(c, NotEnoughAccountKeys)
            ELSE IF ~Rent_from_account_info_ok(accounts[7]) THEN Abort(c, InvalidArgument)
            ELSE process_mint_calls(c, accounts, name, mint, tok)

(***************************************************************************)
(* Processor::process_mint2: the accounts are the caller's, already owned  *)
(* by the token program; the minter is the temporary minting authority.    *)
(***************************************************************************)
mint2_minter_signed(minter) == minter.is_signer

mint2_token_program_ok(token_program) == spl_token_check_id(token_program.key)

\* The ownership check left out.
mint2_ownership_unchecked(mint, token_account, token_program) == TRUE

mint2_owned_by_token_program(mint, token_account, token_program) ==
    ~(mint.owner # token_program.key \/ token_account.owner # token_program.key)

\* A variant of the four calls that stops after mint_to and leaves the
\* minting authority with the minter.
process_mint2_calls_authority_kept(c, accounts) ==
    LET minter == accounts[1]
        receiver == accounts[2]
        mint == accounts[3]
        token_account == accounts[4]
        token_program == accounts[5]
        rent_account == accounts[6]
    IN  run_calls(c,
          << Call(spl_initialize_mint(token_program.key, mint.key, minter.key, 0),
                  <<mint, rent_account, token_program>>,
                  <<>>),
             Call(spl_initialize_account(token_program.key, token_account.key, mint.key,
                                         receiver.key),
                  <<token_account, mint, receiver, rent_account, token_program>>,
                  <<>>),
             Call(spl_mint_to(token_program.key, mint.key, token_account.key, minter.key,
                              <<minter.key>>, 1),
                  <<mint, token_account, minter>>,
                  <<>>) >>)

\* A variant of the four calls that makes the minter the owner of the token
\* account.
process_mint2_calls_minter_owned(c, accounts) ==
    LET minter == accounts[1]
        receiver == accounts[2]
        mint == accounts[3]
        token_account == accounts[4]
        token_program == accounts[5]
        rent_account == accounts[6]
    IN  run_calls(c,
          << Call(spl_initialize_mint(token_program.key, mint.key, minter.key, 0),
                  <<mint, rent_account, token_program>>,
                  <<>>),
             Call(spl_initialize_account(token_program.key, token_account.key, mint.key,
                                         minter.key),
                  <<token_account, mint, minter, rent_account, token_program>>,
                  <<>>),
             Call(spl_mint_to(token_program.key, mint.key, token_account.key, minter.key,
                              <<minter.key>>, 1),
                  <<mint, token_account, minter>>,
                  <<>>),
             Call(spl_set_authority(token_program.key, mint.key, minter.key,
                                    <<minter.key>>),
                  <<mint, minter>>,
                  <<>>) >>)

process_mint2_calls(c, accounts) ==
    LET minter == accounts[1]
        receiver == accounts[2]
        mint == accounts[3]
        token_account == accounts[4]
        token_program == accounts[5]
        rent_account == accounts[6]
    IN  run_calls(c,
          << Call(spl_initialize_mint(token_program.key, mint.key, minter.key, 0),
                  <<mint, rent_account, token_program>>,
                  <<>>),
             Call(spl_initialize_account(token_program.key, token_account.key, mint.key,
                                         receiver.key),
                  <<token_account, mint, receiver, rent_account, token_program>>,
                  <<>>),
             Call(spl_mint_to(token_program.key, mint.key, token_account.key, minter.key,
                              <<minter.key>>, 1),
                  <<mint, token_account, minter>>,
                  <<>>),
             Call(spl_set_authority(token_program.key, mint.key, minter.key,
                                    <<minter.key>>),
                  <<mint, minter>>,
                  <<>>) >>)

process_mint2(c, accounts, name, url) ==
    IF Len(accounts) < 1 THEN Abort(c, NotEnoughAccountKeys)
    ELSE IF ~mint2_minter_signed(accounts[1]) THEN Abort(c, MissingRequiredSignature)
    ELSE IF Len(accounts) < 5 THEN Abort(c, NotEnoughAccountKeys)
    ELSE IF ~mint2_token_program_ok(accounts[5]) THEN Abort(c, AccountMismatch)
    ELSE IF ~mint2_owned_by_token_program(accounts[3], accounts[4], accounts[5])
         THEN Abort(c, IllegalOwner)
    ELSE IF Len(accounts) < 6 THEN Abort(c, NotEnoughAccountKeys)
    ELSE process_mint2_calls(c, accounts)

\* A variant of process that refuses a url of more than two bytes.
process_url_limited(c, accounts, instruction_data) ==
    LET d == try_from_slice(instruction_data)
    IN  IF ~d.ok THEN Abort(c, InvalidInstruction)
        ELSE IF Len(d.ix.url) > 2 THEN Abort(c, InvalidInstruction)
        ELSE IF d.ix.tag = "Mint" THEN process_mint(c, accounts, d.ix.name, d.ix.url)
        ELSE process_mint2(c, accounts, d.ix.name, d.ix.url)

\* Processor::process
process(c, accounts, instruction_data) ==
    LET d == try_from_slice(instruction_data)
    IN  IF ~d.ok THEN Abort(c, InvalidInstruction)
        ELSE IF d.ix.tag = "Mint" THEN process_mint(c, accounts, d.ix.name, d.ix.url)
        ELSE process_mint2(c, accounts, d.ix.name, d.ix.url)

(***************************************************************************)
(* Instruction builders (instructions.rs).  get_mint_account and           *)
(* get_token_account derive under the fixed id [42; 32]; a builder's ok is *)
(* FALSE where the derivation panics.                                      *)
(***************************************************************************)
get_mint_account(minter, nft_name) ==
    derive_mint_account_internal(placeholder_program_id, spl_token_id, minter, nft_name)

get_token_account(owner, minter, nft_name) ==
    derive_token_account_internal(placeholder_program_id, spl_token_id, minter,
                                  nft_name, owner)

Descriptor(ok, program_id, accounts, data) ==
    [ok |-> ok, program_id |-> program_id, accounts |-> accounts, data |-> data]

\* A builder that lists the token-holding address before the mint address.
mint_holder_first(program_id, name, url, payer, owner) ==
    LET data == try_to_vec(GloweInstruction("Mint", name, url))
        m == get_mint_account(payer, name)
        t == get_token_account(owner, payer, name)
    IN  Descriptor(m.ok /\ t.ok, program_id,
            <<AccountMeta_new(payer, TRUE),
              AccountMeta_new_readonly(owner, FALSE),
              AccountMeta_new(t.address, FALSE),
              AccountMeta_new(m.address, FALSE),
              AccountMeta_new_readonly(spl_token_id, FALSE),
              AccountMeta_new_readonly(system_program_id, FALSE),
              AccountMeta_new_readonly(rent_sysvar_id, FALSE)>>,
            data)

mint(program_id, name, url, payer, owner) ==
    LET data == try_to_vec(GloweInstruction("Mint", name, url))
        m == get_mint_account(payer, name)
        t == get_token_account(owner, payer, name)
    IN  Descriptor(m.ok /\ t.ok, program_id,
            <<AccountMeta_new(payer, TRUE),
              AccountMeta_new_readonly(owner, FALSE),
              AccountMeta_new(m.address, FALSE),
              AccountMeta_new(t.address, FALSE),
              AccountMeta_new_readonly(spl_token_id, FALSE),
              AccountMeta_new_readonly(system_program_id, FALSE),
              AccountMeta_new_readonly(rent_sysvar_id, FALSE)>>,
            data)

\* A builder that derives the mint address as mint does, whatever the caller
\* supplied.
mint2_derived_mint(program_id, name, url, payer, owner, mint_key, token_holder) ==
    LET data == try_to_vec(GloweInstruction("Mint2", name, url))
        m == get_mint_account(payer, name)
    IN  Descriptor(m.ok, program_id,
            <<AccountMeta_new(payer, TRUE),
              AccountMeta_new_readonly(owner, FALSE),
              AccountMeta_new(m.address, FALSE),
              AccountMeta_new(token_holder, FALSE),
              AccountMeta_new_readonly(spl_token_id, FALSE),
              AccountMeta_new_readonly(rent_sysvar_id, FALSE)>>,
            data)

mint2(program_id, name, url, payer, owner, mint_key, token_holder) ==
    LET data == try_to_vec(GloweInstruction("Mint2", name, url))
    IN  Descriptor(TRUE, program_id,
            <<AccountMeta_new(payer, TRUE),
              AccountMeta_new_readonly(owner, FALSE),
              AccountMeta_new(mint_key, FALSE),
              AccountMeta_new(token_holder, FALSE),
              AccountMeta_new_readonly(spl_token_id, FALSE),
              AccountMeta_new_readonly(rent_sysvar_id, FALSE)>>,
            data)

(***************************************************************************)
(* The keys, names and urls of the model, and the ledger it starts from:   *)
(* a payer K1 with the funds for FundedMints mints, a payer K2 with the    *)
(* funds for one mint account but not for the token account after it, two  *)
(* empty accounts M1 and T1 of the token program with a mint's and a token *)
(* account's size, and a mint M2 with holder T2 that K2 set up with the    *)
(* token program directly and still holds the minting authority of.        *)
(***************************************************************************)
FundedMints == 2
MaxSupply == 1

K1 == Key(1)
K2 == Key(2)
OtherProgram == Key(9)
Loader == Key(3)
M1 == Key(11)
T1 == Key(12)
M2 == Key(13)
T2 == Key(14)

Users == {K1, K2}
ProgramIds == {placeholder_program_id, Key(43)}

NameA == <<65>>
NameB == <<66>>
NameLong == [i \in 1..(MAX_SEED_LEN + 1) |-> 65]
ValidNames == {NameA, NameB}
UrlA == <<117>>
UrlB == <<117, 114, 108>>
Urls == {UrlA, UrlB}

MintPda(p, payer, n) == derive_mint_account_internal(p, spl_token_id, payer, n).address
TokenPda(p, payer, n, owner) ==
    derive_token_account_internal(p, spl_token_id, payer, n, owner).address

Programs == {spl_token_id, system_program_id, rent_sysvar_id, OtherProgram} \cup ProgramIds

MintCost == minimum_balance(Mint_LEN) + minimum_balance(Account_LEN)

InitLedger ==
    [a \in Users \cup {M1, T1, M2, T2} \cup Programs |->
        IF a = K1 THEN AccountOf(FundedMints * MintCost, system_program_id, 0, NoData)
        ELSE IF a = K2
             THEN AccountOf(minimum_balance(Account_LEN), system_program_id, 0, NoData)
        ELSE IF a = M1
             THEN AccountOf(minimum_balance(Mint_LEN), spl_token_id, Mint_LEN, NoData)
        ELSE IF a = T1
             THEN AccountOf(minimum_balance(Account_LEN), spl_token_id, Account_LEN, NoData)
        ELSE IF a = M2
             THEN AccountOf(minimum_balance(Mint_LEN), spl_token_id, Mint_LEN,
                            MintData(K2, 0, 0))
        ELSE IF a = T2
             THEN AccountOf(minimum_balance(Account_LEN), spl_token_id, Account_LEN,
                            TokenAccountData(M2, K2, 0))
        ELSE AccountOf(1, Loader, 1, NoData)]

(***************************************************************************)
(* The transactions submitted to the program.  A transaction is one        *)
(* instruction: the program it is addressed to, its account references and *)
(* its data.  built says which builder produced it as it stands ("mint",   *)
(* "mint2") or that a client assembled or altered it by hand ("no").       *)
(***************************************************************************)
In(d, built) ==
    [program_id |-> d.program_id, accounts |-> d.accounts, data |-> d.data,
     built |-> built]

Other(u) == IF u = K1 THEN K2 ELSE K1
OtherName(n) == IF n = NameA THEN NameB ELSE NameA

With(d, i, k) == [d EXCEPT !.accounts[i].pubkey = k]
Unsigned(d) == [d EXCEPT !.accounts[1].is_signer = FALSE]
Truncated(d, n) == [d EXCEPT !.accounts = SubSeq(@, 1, n)]
WithBytes(d, b) == [d EXCEPT !.data = b]
WithData(d, ix) == [d EXCEPT !.data = try_to_vec(ix)]

\* What a client that derives under the deployed program's own id submits.
ClientMint(p, n, u, payer, owner) ==
    With(With(mint(p, n, u, payer, owner), 3, MintPda(p, payer, n)),
         4, TokenPda(p, payer, n, owner))

\* One account reference replaced: <<position, key>>.
MintSubstitutions(p, n, payer, owner) ==
    {<<2, Other(owner)>>, <<3, M1>>, <<3, MintPda(p, Other(payer), n)>>,
     <<3, MintPda(p, payer, OtherName(n))>>, <<4, T1>>,
     <<4, TokenPda(p, payer, n, Other(owner))>>, <<5, OtherProgram>>,
     <<6, OtherProgram>>, <<7, OtherProgram>>}

BuiltMintInputs ==
    {In(mint(p, n, u, payer, owner), "mint") :
        p \in ProgramIds, n \in ValidNames, u \in Urls, payer \in Users, owner \in Users}

ClientMintInputs ==
    {In(ClientMint(p, n, UrlA, payer, owner), "no") :
        p \in ProgramIds \ {placeholder_program_id}, n \in ValidNames,
        payer \in Users, owner \in Users}

AlteredMintsOf(p, n, payer, owner) ==
    LET d == ClientMint(p, n, UrlA, payer, owner)
    IN  {Unsigned(d)} \cup
        {With(d, s[1], s[2]) : s \in MintSubstitutions(p, n, payer, owner)}

AlteredMintInputs ==
    UNION {{In(d, "no") : d \in AlteredMintsOf(p, n, payer, owner)} :
              p \in ProgramIds, n \in ValidNames, payer \in Users, owner \in Users}

\* Two alterations at once, a short account list, and a name too long for a
\* seed, for K1 minting NameA to itself.
TwiceAlteredMintsOf(p) ==
    LET d == ClientMint(p, NameA, UrlA, K1, K1)
        subs == MintSubstitutions(p, NameA, K1, K1)
    IN  {Unsigned(With(d, s[1], s[2])) : s \in subs}
        \cup {With(With(d, st[1][1], st[1][2]), st[2][1], st[2][2]) :
                 st \in {x \in subs \X subs : x[2][1] > x[1][1]}}
        \cup {Truncated(d, n) : n \in 0..6}
        \cup {Truncated(With(d, 3, M1), n) : n \in 3..6}
        \cup {WithData(d, GloweInstruction("Mint", NameLong, UrlA)),
              Unsigned(WithData(d, GloweInstruction("Mint", NameLong, UrlA)))}

TwiceAlteredMintInputs ==
    UNION {{In(d, "no") : d \in TwiceAlteredMintsOf(p)} : p \in ProgramIds}

Mint2Mints == {M1, M2, K2, MintPda(placeholder_program_id, K1, NameA)}
Mint2Holders == {T1, T2, M1, K2}

BuiltMint2Inputs ==
    {In(mint2(placeholder_program_id, NameA, UrlA, payer, owner, m, t), "mint2") :
        payer \in Users, owner \in Users, m \in Mint2Mints, t \in Mint2Holders}
    \cup {In(mint2(p, NameLong, UrlB, K1, K2, M1, T1), "mint2") : p \in ProgramIds}

AlteredMint2sOf(m, t) ==
    LET d == mint2(placeholder_program_id, NameA, UrlA, K1, K2, m, t)
    IN  {Unsigned(d), With(d, 5, OtherProgram), With(d, 6, OtherProgram),
         Unsigned(With(d, 5, OtherProgram)), With(With(d, 5, OtherProgram), 3, K2)}

AlteredMint2Inputs ==
    {In(d, "no") : d \in AlteredMint2sOf(M1, T1) \cup AlteredMint2sOf(K2, T1)
                         \cup AlteredMint2sOf(M1, K2)
                         \cup {Truncated(mint2(placeholder_program_id, NameA, UrlA, K1, K2,
                                               M1, T1), n) : n \in 0..5}}

\* Instruction data that is no encoding: every proper prefix of an encoded
\* request, and an encoded request under a variant index the enum lacks.
Prefixes(b) == {SubSeq(b, 1, n) : n \in 0..(Len(b) - 1)}
WithTag(b, tag) == [b EXCEPT ![1] = tag]
BadTags == {2, 255}

MalformedMintInputs ==
    LET d == ClientMint(placeholder_program_id, NameB, UrlB, K1, K1)
    IN  {In(WithBytes(d, b), "no") :
            b \in Prefixes(d.data) \cup {WithTag(d.data, t) : t \in BadTags}}

MalformedMint2Inputs ==
    LET d == mint2(placeholder_program_id, NameA, UrlA, K1, K2, M1, T1)
    IN  {In(WithBytes(d, b), "no") :
            b \in Prefixes(d.data) \cup {WithTag(d.data, t) : t \in BadTags}}

\* A Mint2 that names the mint address derived for K1 and NameA as the
\* account to hold the token.
HolderAtMintPdaInputs ==
    {In(mint2(p, NameA, UrlA, payer, K2, M1, MintPda(p, K1, NameA)), "mint2") :
        p \in ProgramIds, payer \in Users}

Inputs ==
    BuiltMintInputs \cup ClientMintInputs \cup AlteredMintInputs
    \cup TwiceAlteredMintInputs \cup BuiltMint2Inputs \cup AlteredMint2Inputs
    \cup MalformedMintInputs \cup MalformedMint2Inputs \cup HolderAtMintPdaInputs

(***************************************************************************)
(* State.  ledger is the committed ledger.  last is what the latest        *)
(* operation was and how it ended, until its caller has taken the result.  *)
(* completed is the set of mint addresses on which a pipeline has returned *)
(* Ok, and minted the set of <<program id, payer, name>> of the Mint       *)
(* invocations that have.                                                  *)
(***************************************************************************)
Idle == [kind |-> "none"]

Init ==
    /\ ledger = InitLedger
    /\ last = Idle
    /\ completed = {}
    /\ minted = {}

\* The runtime runs Processor::process on a transaction's instruction and
\* commits the working ledger when it returns Ok; any error discards it.
Commit(c, l) == IF c.err = Ok THEN c.ledger ELSE l

ProcessInstruction ==
    /\ last.kind = "none"
    /\ \E tx \in Inputs :
          LET c == process(InvokeContext(tx.program_id, tx.accounts, ledger),
                           AccountInfos(tx.accounts, ledger), tx.data)
              d == try_from_slice(tx.data)
          IN  /\ ledger' = Commit(c, ledger)
              /\ last' = [kind |-> "invoke", tx |-> tx, decoded |-> d,
                          result |-> c.err, calls |-> c.calls]
              /\ completed' = IF c.err = Ok
                              THEN completed \cup {tx.accounts[3].pubkey}
                              ELSE completed
              /\ minted' = IF c.err = Ok /\ d.ix.tag = "Mint"
                           THEN minted \cup
                                {<<tx.program_id, tx.accounts[1].pubkey, d.ix.name>>}
                           ELSE minted

MintAccounts(l) == {a \in DOMAIN l : l[a].space = Mint_LEN}
TokenAccounts(l) == {a \in DOMAIN l : l[a].space = Account_LEN}

\* A user signs a mint_to of one unit addressed to the token program itself,
\* naming itself as the minting authority.
DirectMintTo ==
    /\ last.kind = "none"
    /\ \E signer \in Users, m \in MintAccounts(ledger), dest \in TokenAccounts(ledger) :
          /\ m \in completed \/ Get(ledger, m).data.supply < MaxSupply
          /\ LET ix == spl_mint_to(spl_token_id, m, dest, signer, <<>>, 1)
                 r == Dispatch(ledger, ix, SignerKeys(ix.accounts))
             IN  /\ ledger' = r.ledger
                 /\ last' = [kind |-> "mint_to", signer |-> signer, mint |-> m,
                             dest |-> dest, result |-> r.err]
          /\ UNCHANGED <<completed, minted>>

\* The caller takes the result of the latest operation.
Return ==
    /\ last.kind # "none"
    /\ last' = Idle
    /\ UNCHANGED <<ledger, completed, minted>>

Next == ProcessInstruction \/ DirectMintTo \/ Return

Spec == Init /\ [][Next]_vars
(***************************************************************************)
(* Properties.                                                             *)
(***************************************************************************)
IsInvoke(l) == l.kind = "invoke"
IsMintInvoke(l) == IsInvoke(l) /\ l.decoded.ok /\ l.decoded.ix.tag = "Mint"
IsMint2Invoke(l) == IsInvoke(l) /\ l.decoded.ok /\ l.decoded.ix.tag = "Mint2"
IssuedCalls(l) == l.calls

SupplyCapped ==
    \A m \in completed :
        /\ IsMint(Get(ledger, m))
        /\ Get(ledger, m).data.supply = 1
        /\ Get(ledger, m).data.mint_authority = NoKey

LaterMintFails ==
    /\ (last'.kind = "mint_to" /\ last'.mint \in completed)
          => (last'.result # Ok /\ ledger' = ledger)
    /\ (IsInvoke(last') /\ Len(last'.tx.accounts) >= 3
            /\ last'.tx.accounts[3].pubkey \in completed)
          => (last'.result # Ok /\ ledger' = ledger)

\* C1: in every reachable state a mint on which a Mint or Mint2 pipeline has
\* completed has supply exactly 1 and no minting authority, and every later
\* step that tries to mint into it (a direct mint_to by any signer, or a
\* Mint or Mint2 naming it as the mint account) fails and changes nothing.
C1_SupplyCap == []SupplyCapped /\ [][LaterMintFails]_vars

\* A direct mint_to into a completed mint has been attempted and refused.
C1_Witness ==
    /\ last.kind = "mint_to"
    /\ last.mint \in completed
    /\ last.result = TokenFixedSupply
    /\ Get(ledger, last.mint).data.supply = 1
\* The first account reference carries a signature.
PayerSigned(tx) ==
    Len(tx.accounts) >= 1 /\ tx.accounts[1].pubkey \in SignerKeys(tx.accounts)

\* The addresses Mint re-derives for a transaction exist: the name fits a seed.
Rederivable(l) == Len(l.decoded.ix.name) <= MAX_SEED_LEN

RederivedMint(l) ==
    MintPda(l.tx.program_id, l.tx.accounts[1].pubkey, l.decoded.ix.name)

RederivedToken(l) ==
    TokenPda(l.tx.program_id, l.tx.accounts[1].pubkey, l.decoded.ix.name,
             l.tx.accounts[2].pubkey)

\* A Mint whose supplied mint or token-holding address is not the re-derived one.
MintAddressDiverges(l) ==
    /\ IsMintInvoke(l)
    /\ Rederivable(l)
    /\ \/ Len(l.tx.accounts) >= 3 /\ l.tx.accounts[3].pubkey # RederivedMint(l)
       \/ Len(l.tx.accounts) >= 4 /\ l.tx.accounts[4].pubkey # RederivedToken(l)

RejectedAsMismatch(l) == l.result = AccountMismatch /\ IssuedCalls(l) = <<>>

SomeStepFailed(l) ==
    \/ l.result # Ok
    \/ \E i \in 1..Len(IssuedCalls(l)) : IssuedCalls(l)[i].err # Ok

FailureLeavesLedger == (IsInvoke(last') /\ SomeStepFailed(last')) => ledger' = ledger

\* C3: an invocation that returns an error, or any of whose cross-program
\* calls failed, leaves the committed ledger exactly as it was before.
C3_Atomicity == [][FailureLeavesLedger]_vars

\* A pipeline failed after an earlier call of it had succeeded: the payer
\* could pay for the mint account but not for the token account.
C3_Witness ==
    /\ IsInvoke(last)
    /\ last.result # Ok
    /\ Len(IssuedCalls(last)) = 2
    /\ IssuedCalls(last)[1].err = Ok
    /\ IssuedCalls(last)[1].ix.accounts[2].pubkey \notin DOMAIN ledger
\* The <<program id, payer, name>> of a Mint invocation.
MintTriple(l) == <<l.tx.program_id, l.tx.accounts[1].pubkey, l.decoded.ix.name>>

RepeatedMintFails ==
    (IsMintInvoke(last') /\ Len(last'.tx.accounts) >= 1 /\ MintTriple(last') \in minted)
        => (last'.result # Ok /\ ledger' = ledger)

\* C5: once a Mint with payer P and name N has succeeded under a program,
\* every later Mint under that program with the same P and N fails and
\* leaves the ledger as it was, whatever owner and url it carries.
C5_AtMostOnce == [][RepeatedMintFails]_vars

\* A well-formed Mint for an already minted payer and name, to another
\* owner, was refused by create_account because the mint address is taken.
C5_Witness ==
    /\ IsMintInvoke(last)
    /\ Len(last.tx.accounts) = 7
    /\ MintTriple(last) \in minted
    /\ last.tx.accounts[2].pubkey # last.tx.accounts[1].pubkey
    /\ last.tx.accounts[3].pubkey = RederivedMint(last)
    /\ last.tx.accounts[4].pubkey \notin DOMAIN ledger
    /\ last.result = SystemAccountAlreadyInUse
    /\ Len(IssuedCalls(last)) = 1

\* A Mint2 that passes the signer check and the token-program check.
Mint2PastIdentityChecks(l) ==
    /\ IsMint2Invoke(l)
    /\ PayerSigned(l.tx)
    /\ Len(l.tx.accounts) >= 5
    /\ l.tx.accounts[5].pubkey = spl_token_id

NotTokenOwned(l, k) == Get(l, k).owner # spl_token_id

ForeignAccountsRefused ==
    (/\ Mint2PastIdentityChecks(last')
     /\ \/ NotTokenOwned(ledger, last'.tx.accounts[3].pubkey)
        \/ NotTokenOwned(ledger, last'.tx.accounts[4].pubkey))
        => (last'.result = IllegalOwner /\ IssuedCalls(last') = <<>>)

\* C6: a Mint2 that passes the signer and token-program checks and whose
\* mint account or token-holding account is not owned by the token program
\* fails with IllegalOwner, and no cross-program call has been issued.
C6_Mint2Ownership == [][ForeignAccountsRefused]_vars

\* A Mint2 naming a mint account owned by the system program was refused.
C6_Witness ==
    /\ Mint2PastIdentityChecks(last)
    /\ NotTokenOwned(ledger, last.tx.accounts[3].pubkey)
    /\ ~NotTokenOwned(ledger, last.tx.accounts[4].pubkey)
    /\ last.result = IllegalOwner
    /\ IssuedCalls(last) = <<>>

\* A decoded invocation with a first account that is not a signer.
UnsignedInvoke(l) ==
    /\ IsInvoke(l)
    /\ l.decoded.ok
    /\ Len(l.tx.accounts) >= 1
    /\ ~PayerSigned(l.tx)

UnsignedRefused ==
    UnsignedInvoke(last')
        => (/\ last'.result = MissingRequiredSignature
            /\ IssuedCalls(last') = <<>>
            /\ ledger' = ledger)

\* C7: a Mint or Mint2 invocation whose first account is not a transaction
\* signer fails with MissingRequiredSignature, issues no cross-program call
\* and changes no account.
C7_SignerCheck == [][UnsignedRefused]_vars

\* An unsigned Mint that is otherwise well formed has been refused.
C7_Witness ==
    /\ UnsignedInvoke(last)
    /\ IsMintInvoke(last)
    /\ Len(last.tx.accounts) = 7
    /\ last.tx.accounts[3].pubkey = RederivedMint(last)
    /\ last.result = MissingRequiredSignature

\* An invocation naming a wrong token program, or a Mint naming a wrong
\* system program.
WrongWellKnownProgram(l) ==
    \/ /\ IsMintInvoke(l) \/ IsMint2Invoke(l)
       /\ Len(l.tx.accounts) >= 5
       /\ l.tx.accounts[5].pubkey # spl_token_id
    \/ /\ IsMintInvoke(l)
       /\ Len(l.tx.accounts) >= 6
       /\ l.tx.accounts[6].pubkey # system_program_id

\* C8 as amended: a Mint signed by its payer whose token-program account is
\* not the token program or whose system account is not the system program,
\* and a Mint2 signed by its minter whose token-program account is not the
\* token program, fail with AccountMismatch before any cross-program call.
C8_WellKnownIdentity ==
    (WrongWellKnownProgram(last) /\ PayerSigned(last.tx)) => RejectedAsMismatch(last)

\* A signed Mint with the token program right and the system program wrong
\* has been rejected.
C8_Witness ==
    /\ IsMintInvoke(last)
    /\ Len(last.tx.accounts) = 7
    /\ PayerSigned(last.tx)
    /\ last.tx.accounts[5].pubkey = spl_token_id
    /\ last.tx.accounts[6].pubkey # system_program_id
    /\ last.tx.accounts[3].pubkey = RederivedMint(last)
    /\ RejectedAsMismatch(last)

\* C8 as stated: the same without the signature, for every such invocation.
C8_AsStated == WrongWellKnownProgram(last) => RejectedAsMismatch(last)
\* An account that can pay for a mint account and a token account.
FundedPayer(l, k) ==
    /\ Get(l, k).owner = system_program_id
    /\ Get(l, k).space = 0
    /\ Get(l, k).lamports >= MintCost

\* The state Mint leaves at the mint address m and the token address t for
\* the owner o.
MintedTo(l, m, t, o) ==
    /\ IsMint(Get(l, m))
    /\ Get(l, m).data.decimals = 0
    /\ Get(l, m).data.mint_authority = NoKey
    /\ Get(l, m).data.supply = 1
    /\ IsTokenAccount(Get(l, t))
    /\ Get(l, t).data.mint = m
    /\ Get(l, t).data.amount = 1
    /\ Get(l, t).data.owner = o

\* A Mint as the builder built it, from a funded payer, with nothing at the
\* addresses the builder placed in it nor at those the program derives.
FreshBuiltMint(l, led) ==
    /\ IsMintInvoke(l)
    /\ l.tx.built = "mint"
    /\ PayerSigned(l.tx)
    /\ FundedPayer(led, l.tx.accounts[1].pubkey)
    /\ {RederivedMint(l), RederivedToken(l), l.tx.accounts[3].pubkey,
        l.tx.accounts[4].pubkey} \cap DOMAIN led = {}

BuiltMintSucceeds ==
    FreshBuiltMint(last', ledger)
        => (/\ last'.result = Ok
            /\ MintedTo(ledger', RederivedMint(last'), RederivedToken(last'),
                        last'.tx.accounts[2].pubkey))

\* C4 as stated: a Mint built by the instruction builder and signed by a
\* funded payer, whose derived mint and token-holding addresses hold no
\* account, succeeds and leaves the derived mint initialized with 0 decimals,
\* no minting authority and supply 1, and the derived token-holding address
\* an initialized token account of that mint with 1 unit and the owner passed.
C4_MintPostcondition == [][BuiltMintSucceeds]_vars

\* A builder-built Mint from a funded payer to fresh addresses was rejected.
C4_Witness ==
    /\ IsMintInvoke(last)
    /\ last.tx.built = "mint"
    /\ FundedPayer(ledger, last.tx.accounts[1].pubkey)
    /\ {RederivedMint(last), RederivedToken(last)} \cap DOMAIN ledger = {}
    /\ last.tx.program_id # placeholder_program_id
    /\ last.result = AccountMismatch

\* C9 as stated: in a Mint built by the instruction builder for program_id,
\* the addresses at the positions of the mint and the token-holding account
\* are the ones the pipeline running as program_id re-derives, and the
\* invocation is not rejected by the address authentication.
C9_BuilderAgrees ==
    (IsMintInvoke(last) /\ last.tx.built = "mint")
        => (/\ last.tx.accounts[3].pubkey = RederivedMint(last)
            /\ last.tx.accounts[4].pubkey = RederivedToken(last)
            /\ last.result # AccountMismatch)

\* A builder-built Mint whose mint address is not the one its program derives.
C9_Witness ==
    /\ IsMintInvoke(last)
    /\ last.tx.built = "mint"
    /\ last.tx.accounts[3].pubkey = get_mint_account(last.tx.accounts[1].pubkey,
                                                     last.decoded.ix.name).address
    /\ last.tx.accounts[3].pubkey # RederivedMint(last)

(***************************************************************************)
(* The codec on its own: a request is encoded, and the bytes are decoded.  *)
(* A String holds UTF-8, which for the model's bytes is ASCII.             *)
(***************************************************************************)
MaxStringLen == 300

UrlLong == [i \in 1..MaxStringLen |-> 117]

Requests ==
    {GloweInstruction(tag, name, url) :
        tag \in {"Mint", "Mint2"},
        name \in {<<>>, NameA, NameB, NameLong},
        url \in {<<>>, UrlA, UrlB, <<0, 127>>, UrlLong}}

InitCodec ==
    /\ ledger = InitLedger
    /\ completed = {}
    /\ minted = {}
    /\ last \in {[kind |-> "request", ix |-> r] : r \in Requests}

Encode ==
    /\ last.kind = "request"
    /\ last' = [kind |-> "encoded", ix |-> last.ix, bytes |-> try_to_vec(last.ix)]
    /\ UNCHANGED <<ledger, completed, minted>>

Decode ==
    /\ last.kind = "encoded"
    /\ last' = [kind |-> "decoded", ix |-> last.ix, bytes |-> last.bytes,
                decoded |-> try_from_slice(last.bytes)]
    /\ UNCHANGED <<ledger, completed, minted>>

NextCodec == Encode \/ Decode

SpecCodec == InitCodec /\ [][NextCodec]_vars

\* C10: decoding the bytes produced by encoding a request yields the request:
\* the decode succeeds with the same variant, name and url.
C10_RoundTrip ==
    last.kind = "decoded" => (last.decoded.ok /\ last.decoded.ix = last.ix)

\* A Mint2 request with a url longer than one length byte can count has gone
\* through the codec.
C10_Witness ==
    /\ last.kind = "decoded"
    /\ last.ix.tag = "Mint2"
    /\ Len(last.ix.url) > 255
    /\ Len(last.ix.name) > 0
    /\ last.decoded.ix.url = last.ix.url
\* The requests whose encodings the truncated byte strings are cut from.
TruncationSources ==
    {GloweInstruction(tag, name, url) :
        tag \in {"Mint", "Mint2"}, name \in ValidNames, url \in Urls}

\* b is an encoded request cut short.
IsTruncation(b) ==
    \E r \in TruncationSources :
        /\ Len(b) < Len(try_to_vec(r))
        /\ b = SubSeq(try_to_vec(r), 1, Len(b))

MalformedBytes(b) == b = <<>> \/ b[1] >= 2 \/ IsTruncation(b)

RejectedAsInvalid(l) ==
    /\ ~l.decoded.ok
    /\ l.result = InvalidInstruction
    /\ IssuedCalls(l) = <<>>

\* C11: an invocation whose instruction data is truncated (empty, or ending
\* inside a length prefix or inside a string body) or carries a tag byte of
\* 2 or more fails with InvalidInstruction, and neither pipeline has run:
\* nothing was decoded and no cross-program call was issued.
C11_DecodeRejection ==
    (IsInvoke(last) /\ MalformedBytes(last.tx.data)) => RejectedAsInvalid(last)

\* Data ending inside the body of the url, on accounts a Mint would have
\* accepted, has been rejected.
C11_Witness ==
    /\ IsInvoke(last)
    /\ IsTruncation(last.tx.data)
    /\ Len(last.tx.data) = Len(try_to_vec(GloweInstruction("Mint", NameB, UrlB))) - 1
    /\ Len(last.tx.accounts) = 7
    /\ PayerSigned(last.tx)
    /\ RejectedAsInvalid(last)
(***************************************************************************)
(* The builders on their own: a client calls mint or mint2 with its        *)
(* arguments, and has the runtime run the descriptor it got on the initial *)
(* ledger without committing it.  A builder that panics returns nothing.   *)
(***************************************************************************)
BuilderNames == {NameA, NameB, NameLong}

MintArgs ==
    [op : {"mint"}, program_id : ProgramIds, name : BuilderNames, url : Urls,
     payer : Users, owner : Users, mint_key : {NoKey}, token_holder : {NoKey}]

Mint2Args ==
    [op : {"mint2"}, program_id : ProgramIds, name : BuilderNames, url : Urls,
     payer : Users, owner : Users, mint_key : {M1, K2}, token_holder : {T1, K2}]

InitBuilder ==
    /\ ledger = InitLedger
    /\ completed = {}
    /\ minted = {}
    /\ last \in {[kind |-> "args", args |-> a] : a \in MintArgs \cup Mint2Args}

BuildMint ==
    /\ last.kind = "args"
    /\ last.args.op = "mint"
    /\ last' = [kind |-> "built", args |-> last.args,
                d |-> mint(last.args.program_id, last.args.name, last.args.url,
                           last.args.payer, last.args.owner)]
    /\ UNCHANGED <<ledger, completed, minted>>

BuildMint2 ==
    /\ last.kind = "args"
    /\ last.args.op = "mint2"
    /\ last' = [kind |-> "built", args |-> last.args,
                d |-> mint2(last.args.program_id, last.args.name, last.args.url,
                            last.args.payer, last.args.owner, last.args.mint_key,
                            last.args.token_holder)]
    /\ UNCHANGED <<ledger, completed, minted>>

Preflight ==
    /\ last.kind = "built"
    /\ last.d.ok
    /\ LET c == process(InvokeContext(last.d.program_id, last.d.accounts, ledger),
                        AccountInfos(last.d.accounts, ledger), last.d.data)
       IN  last' = [kind |-> "ran", args |-> last.args, d |-> last.d,
                    result |-> c.err, calls |-> c.calls]
    /\ UNCHANGED <<ledger, completed, minted>>

NextBuilder == BuildMint \/ BuildMint2 \/ Preflight

SpecBuilder == InitBuilder /\ [][NextBuilder]_vars

\* A descriptor is at hand: the builder named op has returned it.
Returned(l, op) == l.kind \in {"built", "ran"} /\ l.args.op = op /\ l.d.ok

\* The calls a Mint issues when it takes its accounts in the order payer,
\* owner, mint, token holder, token program, system program, rent: k is the
\* list of the keys supplied.
MintCallsInOrder(k) ==
    << system_instruction_create_account(k[1], k[3], minimum_balance(Mint_LEN),
                                         Mint_LEN, k[5]),
       system_instruction_create_account(k[1], k[4], minimum_balance(Account_LEN),
                                         Account_LEN, k[5]),
       spl_initialize_mint(k[5], k[3], k[3], 0),
       spl_initialize_account(k[5], k[4], k[3], k[2]),
       spl_mint_to(k[5], k[3], k[4], k[3], <<k[3]>>, 1),
       spl_set_authority(k[5], k[3], k[3], <<k[3]>>) >>

KeysOf(metas) == [i \in 1..Len(metas) |-> metas[i].pubkey]

\* Every call issued is the one of its rank in calls.
IssuedInOrder(issued, calls) ==
    /\ Len(issued) <= Len(calls)
    /\ \A i \in 1..Len(issued) : issued[i].ix = calls[i]

NameAA == <<65, 65>>
DeriverNames == {<<>>, NameA, NameB, NameAA, NameLong}

DeriverArgs == [payer : Users, name : DeriverNames, owner : Users]

InitDeriver ==
    /\ ledger = InitLedger
    /\ completed = {}
    /\ minted = {}
    /\ last \in [kind : {"pair"}, program_id : ProgramIds,
                 token_program_id : {spl_token_id, OtherProgram},
                 a : DeriverArgs, b : DeriverArgs]

DeriveMint ==
    /\ last.kind = "pair"
    /\ last' = [kind |-> "mint_derived", program_id |-> last.program_id,
                token_program_id |-> last.token_program_id,
                a |-> last.a, b |-> last.b,
                ra |-> derive_mint_account_internal(
                          last.program_id, last.token_program_id, last.a.payer,
                          last.a.name),
                rb |-> derive_mint_account_internal(
                          last.program_id, last.token_program_id, last.b.payer,
                          last.b.name)]
    /\ UNCHANGED <<ledger, completed, minted>>

DeriveToken ==
    /\ last.kind = "pair"
    /\ last' = [kind |-> "token_derived", program_id |-> last.program_id,
                token_program_id |-> last.token_program_id,
                a |-> last.a, b |-> last.b,
                ra |-> derive_token_account_internal(
                          last.program_id, last.token_program_id, last.a.payer,
                          last.a.name, last.a.owner),
                rb |-> derive_token_account_internal(
                          last.program_id, last.token_program_id, last.b.payer,
                          last.b.name, last.b.owner)]
    /\ UNCHANGED <<ledger, completed, minted>>

NextDeriver == DeriveMint \/ DeriveToken

SpecDeriver == InitDeriver /\ [][NextDeriver]_vars

\* Both derivations returned an address.
BothDerived(l) == l.ra.ok /\ l.rb.ok

\* C14: under one program and token program, the mint addresses derived for
\* one payer and two different names differ, and so do the mint addresses
\* derived for one name and two different payers.
C14_AddressUniqueness ==
    (/\ last.kind = "mint_derived"
     /\ BothDerived(last)
     /\ \/ last.a.payer = last.b.payer /\ last.a.name # last.b.name
        \/ last.a.payer # last.b.payer /\ last.a.name = last.b.name)
        => last.ra.address # last.rb.address

\* The mint addresses of one payer for the names "A" and "AA" have been
\* derived, and differ.
C14_Witness ==
    /\ last.kind = "mint_derived"
    /\ BothDerived(last)
    /\ last.a.payer = last.b.payer
    /\ last.a.name = NameA
    /\ last.b.name = NameAA
    /\ last.ra.address # last.rb.address
\* The number the four bytes of b from position pos on stand for, lowest
\* byte first.
LengthAt(b, pos) ==
    b[pos] + 256 * b[pos + 1] + 65536 * b[pos + 2] + 16777216 * b[pos + 3]

\* b holds, from position pos on, the length of str in four bytes, each a
\* byte, and then the bytes of str.
HoldsString(b, pos, str) ==
    /\ Len(b) >= pos + 3 + Len(str)
    /\ \A i \in pos..(pos + 3) : b[i] \in 0..255
    /\ LengthAt(b, pos) = Len(str)
    /\ SubSeq(b, pos + 4, pos + 3 + Len(str)) = str

OtherVariant(ix) ==
    GloweInstruction(IF ix.tag = "Mint" THEN "Mint2" ELSE "Mint", ix.name, ix.url)

\* C15: the encoding of a request is the tag byte (0 for Mint, 1 for Mint2),
\* then the name under its length, then the url under its length, and no
\* further byte; the encoding of the other variant with the same name and
\* url is the same from the second byte on and differs in the tag byte.
C15_WireFormat ==
    last.kind \in {"encoded", "decoded"} =>
        /\ last.bytes[1] = (IF last.ix.tag = "Mint" THEN 0 ELSE 1)
        /\ HoldsString(last.bytes, 2, last.ix.name)
        /\ HoldsString(last.bytes, 6 + Len(last.ix.name), last.ix.url)
        /\ Len(last.bytes) = 9 + Len(last.ix.name) + Len(last.ix.url)
        /\ Tail(try_to_vec(OtherVariant(last.ix))) = Tail(last.bytes)
        /\ try_to_vec(OtherVariant(last.ix))[1] # last.bytes[1]

\* A Mint2 request with a name and a longer url has been encoded.
C15_Witness ==
    /\ last.kind = "encoded"
    /\ last.ix = GloweInstruction("Mint2", NameA, UrlB)
    /\ last.bytes = <<1, 1, 0, 0, 0, 65, 3, 0, 0, 0, 117, 114, 108>>
\* The argument lists whose derivations are compared from state to state.
MintDerivationProbes == ProgramIds \X Users \X ValidNames
TokenDerivationProbes == ProgramIds \X Users \X ValidNames \X Users

DerivationsUnmoved ==
    /\ \A a \in MintDerivationProbes :
          derive_mint_account_internal(a[1], spl_token_id, a[2], a[3])'
              = derive_mint_account_internal(a[1], spl_token_id, a[2], a[3])
    /\ \A a \in TokenDerivationProbes :
          derive_token_account_internal(a[1], spl_token_id, a[2], a[3], a[4])'
              = derive_token_account_internal(a[1], spl_token_id, a[2], a[3], a[4])

MintChecksPassed(l) ==
    /\ Len(l.tx.accounts) >= 7
    /\ PayerSigned(l.tx)
    /\ l.tx.accounts[5].pubkey = spl_token_id
    /\ l.tx.accounts[6].pubkey = system_program_id
    /\ l.tx.accounts[3].pubkey = RederivedMint(l)
    /\ l.tx.accounts[4].pubkey = RederivedToken(l)
    /\ l.tx.accounts[7].pubkey = rent_sysvar_id

CountOf(issued, name) ==
    Cardinality({i \in 1..Len(issued) : issued[i].ix.name = name})

\* The result is Ok after all of n calls, or the error of the last call
\* issued, every call before it having returned Ok.
EndsAtFirstFailure(l, n) ==
    /\ \A i \in 1..(Len(IssuedCalls(l)) - 1) : IssuedCalls(l)[i].err = Ok
    /\ IssuedCalls(l)[Len(IssuedCalls(l))].err = l.result
    /\ l.result = Ok <=> Len(IssuedCalls(l)) = n

\* C17: a Mint issues cross-program calls only after all its checks passed,
\* and then in the order create mint account, create token-holding account,
\* initialize mint, initialize token account, mint_to of 1, set_authority,
\* each after every earlier one returned Ok; the first call that fails ends
\* it with that call's error; mint_to is issued at most once, and once in an
\* execution that returns Ok.
C17_MintCallOrder ==
    (IsMintInvoke(last) /\ IssuedCalls(last) # <<>>) =>
        /\ MintChecksPassed(last)
        /\ IssuedInOrder(IssuedCalls(last), MintCallsInOrder(KeysOf(last.tx.accounts)))
        /\ EndsAtFirstFailure(last, 6)
        /\ CountOf(IssuedCalls(last), "mint_to") = (IF last.result = Ok THEN 1 ELSE 0)

\* A Mint has issued all six calls.
C17_Witness ==
    /\ IsMintInvoke(last)
    /\ last.result = Ok
    /\ Len(IssuedCalls(last)) = 6
    /\ IssuedCalls(last)[5].ix.name = "mint_to"
    /\ IssuedCalls(last)[5].ix.args.amount = 1
    /\ IssuedCalls(last)[6].ix.name = "set_authority"
\* The calls a Mint2 issues on the keys k of its accounts, taken in the order
\* minter, receiver, mint, token holder, token program, rent.
Mint2CallsInOrder(k) ==
    << spl_initialize_mint(k[5], k[3], k[1], 0),
       spl_initialize_account(k[5], k[4], k[3], k[2]),
       spl_mint_to(k[5], k[3], k[4], k[1], <<k[1]>>, 1),
       spl_set_authority(k[5], k[3], k[1], <<k[1]>>) >>

\* No mint a pipeline has completed on has a minting authority.
NoAuthorityCommitted ==
    \A m \in completed : Get(ledger, m).data.mint_authority = NoKey

\* C18: after a Mint2 that returned Ok the supplied mint is initialized with
\* 0 decimals, supply 1 and no minting authority, and the supplied token
\* account is an account of that mint holding 1 unit and owned by the
\* receiver; the execution made the minter the authority in its first call
\* and cleared it in its last, and no committed state shows an authority on
\* a mint a pipeline completed on.
C18_Mint2Postcondition ==
    /\ NoAuthorityCommitted
    /\ (IsMint2Invoke(last) /\ last.result = Ok) =>
          /\ MintedTo(ledger, last.tx.accounts[3].pubkey, last.tx.accounts[4].pubkey,
                      last.tx.accounts[2].pubkey)
          /\ Len(IssuedCalls(last)) = 4
          /\ IssuedInOrder(IssuedCalls(last), Mint2CallsInOrder(KeysOf(last.tx.accounts)))
          /\ IssuedCalls(last)[1].ix.args.authority = last.tx.accounts[1].pubkey

\* A Mint2 to a receiver other than the minter has succeeded.
C18_Witness ==
    /\ IsMint2Invoke(last)
    /\ last.result = Ok
    /\ last.tx.accounts[2].pubkey # last.tx.accounts[1].pubkey
    /\ Get(ledger, last.tx.accounts[4].pubkey).data.owner = last.tx.accounts[2].pubkey
    /\ Get(ledger, last.tx.accounts[3].pubkey).data.mint_authority = NoKey
NoViolation == "none"

\* The error of the first check a Mint with all seven accounts fails, in the
\* order signer, token program, system program, mint address, token address.
MintFirstViolation(l) ==
    IF ~PayerSigned(l.tx) THEN MissingRequiredSignature
    ELSE IF l.tx.accounts[5].pubkey # spl_token_id THEN AccountMismatch
    ELSE IF l.tx.accounts[6].pubkey # system_program_id THEN AccountMismatch
    ELSE IF ~Rederivable(l) THEN NoViolation
    ELSE IF l.tx.accounts[3].pubkey # RederivedMint(l) THEN AccountMismatch
    ELSE IF l.tx.accounts[4].pubkey # RederivedToken(l) THEN AccountMismatch
    ELSE NoViolation

\* The error of the first check a Mint2 with all six accounts fails on the
\* ledger led, in the order signer, token program, account ownership.
Mint2FirstViolation(l, led) ==
    IF ~PayerSigned(l.tx) THEN MissingRequiredSignature
    ELSE IF l.tx.accounts[5].pubkey # spl_token_id THEN AccountMismatch
    ELSE IF \/ NotTokenOwned(led, l.tx.accounts[3].pubkey)
            \/ NotTokenOwned(led, l.tx.accounts[4].pubkey) THEN IllegalOwner
    ELSE NoViolation

\* The preconditions, by number in the order of MintFirstViolation, that a
\* Mint with all seven accounts violates.
MintViolations(l) ==
    {i \in 1..5 :
        \/ i = 1 /\ ~PayerSigned(l.tx)
        \/ i = 2 /\ l.tx.accounts[5].pubkey # spl_token_id
        \/ i = 3 /\ l.tx.accounts[6].pubkey # system_program_id
        \/ i = 4 /\ Rederivable(l) /\ l.tx.accounts[3].pubkey # RederivedMint(l)
        \/ i = 5 /\ Rederivable(l) /\ l.tx.accounts[4].pubkey # RederivedToken(l)}

EarliestCheckDecides ==
    /\ (/\ IsMintInvoke(last')
        /\ Len(last'.tx.accounts) = 7
        /\ MintFirstViolation(last') # NoViolation)
           => (/\ last'.result = MintFirstViolation(last')
               /\ IssuedCalls(last') = <<>>)
    /\ (/\ IsMint2Invoke(last')
        /\ Len(last'.tx.accounts) = 6
        /\ Mint2FirstViolation(last', ledger) # NoViolation)
           => (/\ last'.result = Mint2FirstViolation(last', ledger)
               /\ IssuedCalls(last') = <<>>)

OtherUrl(u) == IF u = UrlA THEN UrlB ELSE UrlA

\* The transaction tx, which decodes to ix, with the other url in its data.
WithOtherUrl(tx, ix) == WithData(tx, [ix EXCEPT !.url = OtherUrl(ix.url)])

\* The program run on the ledger l for the transaction tx.
Run(tx, l) ==
    process(InvokeContext(tx.program_id, tx.accounts, l),
            AccountInfos(tx.accounts, l), tx.data)

\* The invocation this step made and the same invocation under the other
\* url, run on the ledger the step started from, agree on the result, on the
\* calls issued and on the ledger left behind.
UrlIgnored ==
    (IsInvoke(last') /\ last'.decoded.ok) =>
        LET tx2 == WithOtherUrl(last'.tx, last'.decoded.ix)
            c2 == Run(tx2, ledger)
        IN  /\ tx2.data # last'.tx.data
            /\ try_from_slice(tx2.data).ix.tag = last'.decoded.ix.tag
            /\ try_from_slice(tx2.data).ix.name = last'.decoded.ix.name
            /\ c2.err = last'.result
            /\ c2.calls = IssuedCalls(last')
            /\ Commit(c2, ledger) = ledger'

\* C20: a Mint or Mint2 and the same invocation with another url, started
\* from the same ledger with the same accounts and name, return the same
\* result, issue the same calls with the same signer seeds and leave the
\* same ledger; the url therefore reaches no account and no derivation seed.
C20_UrlNonInterference == [][UrlIgnored]_vars

\* A Mint has succeeded and changed the ledger, and the same Mint under the
\* other url is a different instruction.
C20_Witness ==
    /\ IsMintInvoke(last)
    /\ last.result = Ok
    /\ Len(IssuedCalls(last)) = 6
    /\ last.decoded.ix.url = UrlB
    /\ WithOtherUrl(last.tx, last.decoded.ix).data # last.tx.data
    /\ IsMint(Get(ledger, last.tx.accounts[3].pubkey))
\* The account at k on the ledger l has the given size, is owned by the token
\* program and holds exactly the rent-exempt minimum for that size.
CreatedExact(l, k, size) ==
    /\ Get(l, k).space = size
    /\ Get(l, k).owner = spl_token_id
    /\ Get(l, k).lamports = minimum_balance(size)

\* The step's Mint returned Ok: its mint and token accounts did not exist
\* before and exist after with exact size, owner and funding; the two
\* create_account calls name the payer as the funding account; the payer
\* paid the sum of the two minimums and no other balance moved.
MintFundsExactly ==
    (IsMintInvoke(last') /\ last'.result = Ok) =>
        LET payer == last'.tx.accounts[1].pubkey
            m == last'.tx.accounts[3].pubkey
            t == last'.tx.accounts[4].pubkey
        IN  /\ Get(ledger, m) = NoAccount
            /\ Get(ledger, t) = NoAccount
            /\ CreatedExact(ledger', m, Mint_LEN)
            /\ CreatedExact(ledger', t, Account_LEN)
            /\ \A i \in 1..2 :
                  /\ IssuedCalls(last')[i].ix.name = "create_account"
                  /\ IssuedCalls(last')[i].ix.accounts[1].pubkey = payer
            /\ Get(ledger', payer).lamports =
                  Get(ledger, payer).lamports
                      - (minimum_balance(Mint_LEN) + minimum_balance(Account_LEN))
            /\ \A a \in (DOMAIN ledger \cup DOMAIN ledger') \ {payer, m, t} :
                  Get(ledger', a).lamports = Get(ledger, a).lamports

\* C21: a Mint that returns Ok creates the mint account with the token
\* program's mint size and the token account with its account size, each
\* owned by the token program and holding exactly the rent-exempt minimum for
\* its size, both funded by the payer, whose balance drops by exactly the sum
\* of the two minimums, while every other balance stays as it was.
C21_CreationAndFunding == [][MintFundsExactly]_vars

\* A Mint has succeeded, its two accounts hold their minimums and the payer
\* holds less than it started with.
C21_Witness ==
    /\ IsMintInvoke(last)
    /\ last.result = Ok
    /\ CreatedExact(ledger, last.tx.accounts[3].pubkey, Mint_LEN)
    /\ CreatedExact(ledger, last.tx.accounts[4].pubkey, Account_LEN)
    /\ Get(ledger, last.tx.accounts[1].pubkey).lamports
         < Get(InitLedger, last.tx.accounts[1].pubkey).lamports
\* The mint address of every program id, payer and name of the universe.
MintAddressOf ==
    [x \in MintDerivationProbes |-> MintPda(x[1], x[2], x[3])]

\* The step ran a Mint of the name x[3] under the program x[1] with the payer
\* x[2], signed by that payer, and the Mint returned Ok.
MintedByItsPayer(l, x) ==
    /\ IsMintInvoke(l)
    /\ l.result = Ok
    /\ l.tx.program_id = x[1]
    /\ l.tx.accounts[1].pubkey = x[2]
    /\ PayerSigned(l.tx)
    /\ l.decoded.ix.name = x[3]

\* A transaction that names the address a as its mint or as its token holder.
NamesAddress(tx, a) ==
    \/ Len(tx.accounts) >= 3 /\ tx.accounts[3].pubkey = a
    \/ Len(tx.accounts) >= 4 /\ tx.accounts[4].pubkey = a

\* Every mint address whose account a ledger-changing step created or
\* changed is that of the Mint the step ran.
OnlyThePayerCreates ==
    ledger' # ledger =>
        \A x \in MintDerivationProbes :
            Get(ledger', MintAddressOf[x]) # Get(ledger, MintAddressOf[x])
                => MintedByItsPayer(last', x)

\* C22: the account at the mint address derived for a program, a payer P and
\* a name N comes into being or changes only in a step that ran a successful
\* Mint of N under that program with P as payer and signer; no Mint by
\* another payer, no invocation P did not sign and no Mint2 naming the
\* address as mint or token holder creates or initializes it.
C22_NoNameSquatting == [][OnlyThePayerCreates]_vars

\* The mint address of K1 and NameA holds a completed mint, and a Mint2 by
\* K2 that names it has just been refused.
C22_Witness ==
    \E p \in ProgramIds :
        /\ IsMint(Get(ledger, MintAddressOf[<<p, K1, NameA>>]))
        /\ IsMint2Invoke(last)
        /\ Len(last.tx.accounts) = 6
        /\ last.tx.accounts[1].pubkey = K2
        /\ PayerSigned(last.tx)
        /\ NamesAddress(last.tx, MintAddressOf[<<p, K1, NameA>>])
        /\ last.result # Ok
=============================================================================
